---- MODULE Spec2Model ----
(***************************************************************************)
(* Model of src/app.py: the kanji writing drill.                           *)
(*                                                                         *)
(*  - stable_seed, random.Random(seed).shuffle and build_today_set are     *)
(*    operators, computed step by step as the code computes them.          *)
(*  - SelSpec calls build_today_set on inputs drawn from bounded sets.     *)
(*  - Spec is the Streamlit session: every rerun of the script runs        *)
(*    main_app in three steps (signature, build, show) between which the   *)
(*    KST clock may advance.                                               *)
(*                                                                         *)
(* Strings are TLA+ strings; where the code hashes or joins them they are  *)
(* turned into their UTF-8 bytes.  SHA-256 and the Mersenne Twister are    *)
(* library code: they are stood in for by a 16-bit polynomial hash and a   *)
(* 16-bit linear congruential generator, which keep what the program       *)
(* relies on (a deterministic function of the bytes, a generator whose     *)
(* state advances with every draw).                                        *)
(***************************************************************************)
EXTENDS Integers, Sequences, FiniteSets, TLC

\* ------------------------------------------------------------------ bounds
MaxPool == 4      \* rows of one bucket in kanji_writing_sentences
MaxN == 4         \* largest count n passed to build_today_set in SelSpec
MinN == 1         \* counts are drawn from -MinN .. MaxN
MaxDay == 2       \* the clock runs over the days 1 .. MaxDay
MaxAttempts == 1  \* rows insert_attempt can add to the attempts table

\* ------------------------------------------------------------ value sets
Users == {"u1", "u2"}
Buckets == {"beginner", "intermediate", "advanced"}
Dates == <<"2024-06-01", "2024-06-02", "2024-06-03", "2024-06-04">>
QidNull == ""
QIds == {"A", "B", "C"}
Levels == {"N5"}
Grades == {"correct", "wrong"}
Rows == [qid : QIds \cup {QidNull}, level : Levels]

Utf8 ==
      ("u1" :> <<117, 49>>) @@ ("u2" :> <<117, 50>>)
   @@ ("beginner" :> <<98, 101, 103, 105, 110, 110, 101, 114>>)
   @@ ("intermediate" :> <<105, 110, 116, 101, 114, 109, 101, 100, 105, 97, 116, 101>>)
   @@ ("advanced" :> <<97, 100, 118, 97, 110, 99, 101, 100>>)
   @@ ("2024-06-01" :> <<50, 48, 50, 52, 45, 48, 54, 45, 48, 49>>)
   @@ ("2024-06-02" :> <<50, 48, 50, 52, 45, 48, 54, 45, 48, 50>>)
   @@ ("2024-06-03" :> <<50, 48, 50, 52, 45, 48, 54, 45, 48, 51>>)
   @@ ("2024-06-04" :> <<50, 48, 50, 52, 45, 48, 54, 45, 48, 52>>)

\* --------------------------------------------------------------- utilities
\* datetime.now(KST).strftime("%Y-%m-%d"): the clock is a KST day number
today_kst_str(clock) == Dates[clock]

\* "|".join(parts) on the UTF-8 bytes; 124 is "|"
RECURSIVE JoinPipe(_)
JoinPipe(parts) ==
    IF Len(parts) = 0 THEN <<>>
    ELSE IF Len(parts) = 1 THEN Utf8[parts[1]]
    ELSE Utf8[parts[1]] \o <<124>> \o JoinPipe(Tail(parts))

\* hashlib.sha256(bytes): a 16-bit polynomial digest stands in for it
RECURSIVE Digest(_, _)
Digest(bytes, h) ==
    IF bytes = <<>> THEN h
    ELSE Digest(Tail(bytes), (h * 31 + Head(bytes) + 1) % 65536)

stable_seed(parts) == Digest(JoinPipe(parts), 7)

\* --------------------------------------------------------------- random
\* random.Random(seed): the generator state
RandomInit(seed) == seed % 65536

\* one step of the generator
RandomStep(s) == (s * 25173 + 13849) % 65536

BitLength(m) == IF m < 2 THEN m ELSE IF m < 4 THEN 2 ELSE IF m < 8 THEN 3 ELSE 4

\* getrandbits(k): advance, take the top k bits
GetRandBits(s, k) == [s |-> RandomStep(s), r |-> RandomStep(s) \div (2 ^ (16 - k))]

\* _randbelow(m): draw BitLength(m) bits until the value is below m
RECURSIVE RandBelow(_, _)
RandBelow(s, m) ==
    LET d == GetRandBits(s, BitLength(m))
    IN  IF d.r < m THEN d ELSE RandBelow(d.s, m)

Swap(x, i, j) == [x EXCEPT ![i] = x[j], ![j] = x[i]]

\* rng.shuffle(x): for i in reversed(range(1, len(x))): j = randbelow(i + 1);
\* x[i], x[j] = x[j], x[i].  Positions are 1-based here, so i runs from
\* Len(x) down to 2 and j = randbelow(i) + 1.
RECURSIVE ShuffleFrom(_, _, _)
ShuffleFrom(x, s, i) ==
    IF i < 2 THEN [x |-> x, s |-> s]
    ELSE LET d == RandBelow(s, i)
         IN  ShuffleFrom(Swap(x, i, d.r + 1), d.s, i - 1)

Shuffle(x, s) == ShuffleFrom(x, s, Len(x))

\* ------------------------------------------------------------ Python lists
\* x[:k] with Python's slice rules: a negative k counts from the end
Slice(x, k) ==
    LET stop == IF k >= 0 THEN (IF k < Len(x) THEN k ELSE Len(x))
                ELSE (IF Len(x) + k > 0 THEN Len(x) + k ELSE 0)
    IN  SubSeq(x, 1, stop)

\* [r for r in rows if (r["qid"] in attempted) == member]
RECURSIVE Partition(_, _, _)
Partition(rows, attempted, member) ==
    IF rows = <<>> THEN <<>>
    ELSE (IF (Head(rows).qid \in attempted) = member THEN <<Head(rows)>> ELSE <<>>)
         \o Partition(Tail(rows), attempted, member)

\* ------------------------------------------------------------------ state
VARIABLES
    sentences,        \* table kanji_writing_sentences: bucket -> active rows, in table order
    attempts,         \* table kanji_writing_attempts: the rows, in insert order
    now,              \* the KST clock, as a day number
    user,             \* st.session_state.user: "" when logged out
    bucket,           \* st.session_state.bucket: the segmented control's value
    today_signature,  \* st.session_state.today_signature: <<>> when unset
    today_set,        \* st.session_state.today_set
    idx,              \* st.session_state.idx
    revealed,         \* st.session_state.revealed
    last_canvas,      \* st.session_state.last_canvas: "" when None
    pc,               \* where the running script is: idle, build, show, rerun
    signature,        \* main_app's local signature of the running script
    sig_date,         \* the today_kst_str() that signature was made from
    ev,               \* the widget event that started the running script
    screen,           \* what the last run put on the page
    seed_date,        \* the today_kst_str() the seed of today_set was made from
    call,             \* SelSpec, DaySpec: the arguments of the call
    ret,              \* SelSpec, DaySpec: what the last call returned
    first_ret         \* DaySpec: what the first call returned

vars == <<sentences, attempts, now, user, bucket, today_signature, today_set, idx,
          revealed, last_canvas, pc, signature, sig_date, ev, screen, seed_date, call, ret,
          first_ret>>

dbVars == <<sentences, attempts, now>>
sessionVars == <<user, bucket, today_signature, today_set, idx, revealed, last_canvas>>
runVars == <<pc, signature, sig_date, ev, screen, seed_date>>
selVars == <<call, ret, first_ret>>

\* ------------------------------------------------------------- data fetch
fetch_sentences(b) == sentences[b]

\* {row["qid"] for row in data if row.get("qid")}
fetch_attempted_qids(user_id, b) ==
    {attempts[i].qid : i \in {j \in 1..Len(attempts) :
        /\ attempts[j].user_id = user_id
        /\ attempts[j].bucket = b
        /\ attempts[j].qid # QidNull}}

\* the payload insert_attempt sends (user_email and drawing_png_b64 left out)
AttemptRow(user_id, qid, b, level, self_grade) ==
    [user_id |-> user_id, qid |-> qid, bucket |-> b, level |-> level,
     self_grade |-> self_grade]

\* ---------------------------------------------------------- today set
Fresh(all_rows, attempted) == Partition(all_rows, attempted, FALSE)

Fallback(all_rows, attempted) == Partition(all_rows, attempted, TRUE)

\* Variants of Choose with one slip each, used to test the properties below.
\* no truncation: the whole fallback is appended and chosen is returned as it is
Choose_NoTruncate(fresh, fallback, seed, n) ==
    LET sh1 == Shuffle(fresh, RandomInit(seed))
        chosen1 == Slice(sh1.x, n)
    IN  IF Len(chosen1) < n THEN chosen1 \o Shuffle(fallback, sh1.s).x ELSE chosen1

\* the attempted rows are taken first
Choose_SeenFirst(fresh, fallback, seed, n) ==
    LET sh1 == Shuffle(fallback, RandomInit(seed))
        chosen1 == Slice(sh1.x, n)
        chosen2 == IF Len(chosen1) < n
                   THEN chosen1 \o Slice(Shuffle(fresh, sh1.s).x, n - Len(chosen1))
                   ELSE chosen1
    IN  Slice(chosen2, n)

\* the fill is one row short
Choose_ShortFill(fresh, fallback, seed, n) ==
    LET sh1 == Shuffle(fresh, RandomInit(seed))
        chosen1 == Slice(sh1.x, n)
        chosen2 == IF Len(chosen1) < n
                   THEN chosen1 \o Slice(Shuffle(fallback, sh1.s).x, n - Len(chosen1) - 1)
                   ELSE chosen1
    IN  Slice(chosen2, n)

\* the fallback is shuffled by a second generator made from the same seed
Choose_Reseed(fresh, fallback, seed, n) ==
    LET sh1 == Shuffle(fresh, RandomInit(seed))
        chosen1 == Slice(sh1.x, n)
        chosen2 == IF Len(chosen1) < n
                   THEN chosen1 \o Slice(Shuffle(fallback, RandomInit(seed)).x, n - Len(chosen1))
                   ELSE chosen1
    IN  Slice(chosen2, n)

\* chosen.extend(pool1[:n]); if len(chosen) < n: shuffle fallback with the
\* same generator and extend; return chosen[:n]
Choose(fresh, fallback, seed, n) ==
    LET sh1 == Shuffle(fresh, RandomInit(seed))
        chosen1 == Slice(sh1.x, n)
        chosen2 == IF Len(chosen1) < n
                   THEN chosen1 \o Slice(Shuffle(fallback, sh1.s).x, n - Len(chosen1))
                   ELSE chosen1
    IN  Slice(chosen2, n)

build_today_set(user_id, b, n) ==
    LET all_rows == fetch_sentences(b)
        attempted == fetch_attempted_qids(user_id, b)
    IN  IF all_rows = <<>> THEN <<>>
        ELSE Choose(Fresh(all_rows, attempted), Fallback(all_rows, attempted),
                    stable_seed(<<user_id, today_kst_str(now), b>>), n)

\* ------------------------------------------------- SelSpec: one call
Pools == UNION {[1..k -> Rows] : k \in 0..MaxPool}

RECURSIVE SeqOfSet(_)
SeqOfSet(S) ==
    IF S = {} THEN <<>>
    ELSE LET x == CHOOSE y \in S : TRUE IN <<x>> \o SeqOfSet(S \ {x})

\* no call of build_today_set has returned
NoReturn == [status |-> "none", chosen |-> <<>>]

\* a script run that no widget started, and the pages the script can leave
NoEvent == [kind |-> "none", key |-> <<>>, arg |-> ""]
LoginScreen == [view |-> "login", key |-> <<>>, grading |-> FALSE]
EmptyScreen == [view |-> "empty", key |-> <<>>, grading |-> FALSE]
DoneScreen == [view |-> "done", key |-> <<>>, grading |-> FALSE]

\* session and script state before the first run of the script
SessionInit ==
    /\ user = ""
    /\ bucket = "beginner"
    /\ today_signature = <<>>
    /\ today_set = <<>>
    /\ idx = 0
    /\ revealed = FALSE
    /\ last_canvas = ""

RunInit ==
    /\ pc = "idle"
    /\ signature = <<>>
    /\ sig_date = ""
    /\ ev = NoEvent
    /\ screen = LoginScreen
    /\ seed_date = ""

\* any pool for the called bucket, any set of attempted ids of the calling user
\* in that bucket (next to a row of another user, which the query must filter
\* out), any count, any user and bucket, on the first day
SelInit ==
    /\ SessionInit
    /\ RunInit
    /\ now = 1
    /\ call \in [user_id : Users, bucket : Buckets, n : (0 - MinN)..MaxN]
    /\ ret = NoReturn
    /\ first_ret = NoReturn
    /\ \E pool \in Pools :
         sentences = [b \in Buckets |-> IF b = call.bucket THEN pool ELSE <<>>]
    /\ \E S \in SUBSET QIds :
         attempts =
            [i \in 1..Cardinality(S) |->
                AttemptRow(call.user_id, SeqOfSet(S)[i], call.bucket, "N5", "correct")]
            \o <<AttemptRow(CHOOSE u \in Users : u # call.user_id, "A", call.bucket,
                            "N5", "wrong")>>

\* chosen = build_today_set(user_id, bucket, n)
SelCall ==
    /\ ret.status = "none"
    /\ ret' = [status |-> "ok", chosen |-> build_today_set(call.user_id, call.bucket, call.n)]
    /\ UNCHANGED <<dbVars, sessionVars, runVars, call, first_ret>>

SelNext == SelCall

SelSpec == SelInit /\ [][SelNext]_vars

\* --------------------------------------------------- Spec: the session
TodayN == 10

\* the tables a session starts from: two buckets with rows, one without
RowOf(q) == [qid |-> q, level |-> "N5"]

Init ==
    /\ SessionInit
    /\ RunInit
    /\ now = 1
    /\ sentences = [b \in Buckets |->
                        IF b = "beginner" THEN <<RowOf("A"), RowOf("B")>>
                        ELSE IF b = "intermediate" THEN <<RowOf("A")>> ELSE <<>>]
    /\ attempts = <<>>
    /\ call = [user_id |-> "u1", bucket |-> "beginner", n |-> TodayN]
    /\ ret = NoReturn
    /\ first_ret = NoReturn

\* signature = f"{user_id}|{today_kst_str()}|{bucket}"
MakeSignature(user_id, date, b) == JoinPipe(<<user_id, date, b>>)

\* the rebuild is decided by the stored signature being unset only
SignatureChanged_UnsetOnly(stored, sig) == stored = <<>>

\* st.session_state.get("today_signature") != signature
SignatureChanged(stored, sig) == stored # sig

\* the key of the item's components: f"..._{today_kst_str()}_{bucket}_{qid}_{idx}"
ComponentKey(date, b, qid, i) == <<date, b, qid, i>>

\* idx = max(0, min(idx, len(today_set)))
Clamp(i, len) ==
    LET m == IF i < len THEN i ELSE len IN IF m > 0 THEN m ELSE 0

\* always the first row of the set
CurrentRow_First(set, i) == set[1]

\* row = today_set[idx], idx counted from 0
CurrentRow(set, i) == set[i + 1]

\* the KST clock passes midnight
Tick ==
    /\ now < MaxDay
    /\ now' = now + 1
    /\ UNCHANGED <<sentences, attempts, sessionVars, runVars, selVars>>

\* auth_block: the login button signs the user in and reruns the script
Login(u) ==
    /\ pc = "idle"
    /\ user = ""
    /\ user' = u
    /\ pc' = "rerun"
    /\ ev' = NoEvent
    /\ UNCHANGED <<bucket, today_signature, today_set, idx, revealed, last_canvas,
                   signature, sig_date, screen, seed_date, dbVars, selVars>>

\* main_app: the logout button; the rerun shows auth_block, where the bucket
\* control is not drawn and its widget state is dropped
Logout ==
    /\ pc = "idle"
    /\ user # ""
    /\ user' = ""
    /\ bucket' = "beginner"
    /\ screen' = LoginScreen
    /\ ev' = NoEvent
    /\ UNCHANGED <<today_signature, today_set, idx, revealed, last_canvas, pc,
                   signature, sig_date, seed_date, dbVars, selVars>>

\* main_app up to the rebuild decision, started by event e with the bucket
\* control at b
RunMain(e, b) ==
    LET date == today_kst_str(now)
        sig == MakeSignature(user, date, b)
    IN  /\ user # ""
        /\ bucket' = b
        /\ sig_date' = date
        /\ signature' = sig
        /\ ev' = e
        /\ IF SignatureChanged(today_signature, sig)
           THEN today_signature' = sig /\ pc' = "build"
           ELSE today_signature' = today_signature /\ pc' = "show"
        /\ UNCHANGED <<user, today_set, idx, revealed, last_canvas, screen, seed_date,
                       dbVars, selVars>>

\* st.rerun(): the script starts again at once, with no widget event
Rerun ==
    /\ pc = "rerun"
    /\ RunMain(NoEvent, bucket)

\* a rerun no button started (the save-drawing toggle, a page refresh)
Refresh ==
    /\ pc = "idle"
    /\ RunMain(NoEvent, bucket)

\* the bucket control is set to b
SelectBucket(b) ==
    /\ pc = "idle"
    /\ b # bucket
    /\ RunMain([kind |-> "bucket", key |-> <<>>, arg |-> b], b)

\* a button of the item on the page is clicked: reveal and next always, the two
\* grade buttons when the answer is shown; or the canvas sends its drawing
ClickItem(kind) ==
    /\ pc = "idle"
    /\ screen.view = "item"
    /\ kind \in {"correct", "wrong"} => screen.grading
    /\ RunMain([kind |-> kind, key |-> screen.key,
                arg |-> IF kind = "canvas" THEN "png" ELSE ""], bucket)

\* the button of the completion page is clicked
ClickRestart ==
    /\ pc = "idle"
    /\ screen.view = "done"
    /\ RunMain([kind |-> "restart", key |-> <<>>, arg |-> ""], bucket)

\* the body of the if: the set is rebuilt and the position reset
Build ==
    /\ pc = "build"
    /\ today_set' = build_today_set(user, bucket, TodayN)
    /\ idx' = 0
    /\ revealed' = FALSE
    /\ last_canvas' = ""
    /\ seed_date' = today_kst_str(now)
    /\ pc' = "show"
    /\ UNCHANGED <<user, bucket, today_signature, signature, sig_date, ev, screen,
                   dbVars, selVars>>

\* main_app from today_set = ... to its end.  saved says whether insert_attempt
\* returns (TRUE) or raises (FALSE).
Show(saved) ==
    /\ pc = "show"
    /\ ev' = NoEvent
    /\ UNCHANGED <<user, bucket, today_signature, today_set, signature, sig_date,
                   seed_date, sentences, now, selVars>>
    /\ IF today_set = <<>>
       THEN \* st.warning, st.stop
            /\ screen' = EmptyScreen
            /\ pc' = "idle"
            /\ UNCHANGED <<idx, revealed, last_canvas, attempts>>
       ELSE IF Clamp(idx, Len(today_set)) >= Len(today_set)
       THEN \* the completion page and its button
            /\ screen' = DoneScreen
            /\ UNCHANGED attempts
            /\ IF ev.kind = "restart"
               THEN /\ idx' = 0
                    /\ revealed' = FALSE
                    /\ last_canvas' = ""
                    /\ pc' = "rerun"
               ELSE /\ UNCHANGED <<idx, revealed, last_canvas>>
                    /\ pc' = "idle"
       ELSE LET i == Clamp(idx, Len(today_set))
                row == CurrentRow(today_set, i)
                key == ComponentKey(today_kst_str(now), bucket, row.qid, i)
                mine == ev.key = key
                canvas == IF mine /\ ev.kind = "canvas" THEN ev.arg ELSE last_canvas
                shown == IF mine /\ ev.kind = "reveal" THEN TRUE ELSE revealed
            IN  IF mine /\ ev.kind = "next"
                THEN /\ idx' = i + 1
                     /\ revealed' = FALSE
                     /\ last_canvas' = ""
                     /\ screen' = [view |-> "item", key |-> key, grading |-> FALSE]
                     /\ pc' = "rerun"
                     /\ UNCHANGED attempts
                ELSE IF shown /\ mine /\ ev.kind \in {"correct", "wrong"}
                THEN IF saved
                     THEN /\ Len(attempts) < MaxAttempts
                          /\ attempts' = Append(attempts,
                                AttemptRow(user, row.qid, bucket, row.level, ev.kind))
                          /\ idx' = i + 1
                          /\ revealed' = FALSE
                          /\ last_canvas' = ""
                          /\ screen' = [view |-> "item", key |-> key, grading |-> TRUE]
                          /\ pc' = "rerun"
                     ELSE \* st.error, st.stop
                          /\ screen' = [view |-> "save_error", key |-> key, grading |-> FALSE]
                          /\ revealed' = shown
                          /\ last_canvas' = canvas
                          /\ pc' = "idle"
                          /\ UNCHANGED <<idx, attempts>>
                ELSE /\ saved
                     /\ revealed' = shown
                     /\ last_canvas' = canvas
                     /\ screen' = [view |-> "item", key |-> key, grading |-> shown]
                     /\ pc' = "idle"
                     /\ UNCHANGED <<idx, attempts>>

Next ==
    \/ Tick
    \/ \E u \in Users : Login(u)
    \/ Logout
    \/ Rerun
    \/ Refresh
    \/ \E b \in Buckets : SelectBucket(b)
    \/ \E kind \in {"reveal", "next", "canvas", "correct", "wrong"} : ClickItem(kind)
    \/ ClickRestart
    \/ Build
    \/ \E saved \in BOOLEAN : Show(saved)

Spec == Init /\ [][Next]_vars

\* --------------------- DaySpec: calls for one (user, day, bucket)
\* the calls of one user on one day in one bucket, over a pool that does not
\* change and has no repeated or missing id, with the attempts insert_attempt
\* records in between
DayInit ==
    /\ SessionInit
    /\ RunInit
    /\ now \in 1..MaxDay
    /\ call \in [user_id : Users, bucket : Buckets, n : {2, TodayN}]
    /\ ret = NoReturn
    /\ first_ret = NoReturn
    /\ \E pool \in {p \in Pools : \A i, j \in 1..Len(p) :
                        p[i].qid # QidNull /\ (i # j => p[i].qid # p[j].qid)} :
         sentences = [b \in Buckets |-> IF b = call.bucket THEN pool ELSE <<>>]
    /\ attempts = <<>>

\* st.session_state.today_set = build_today_set(user_id, bucket, n)
DayCall ==
    /\ ret' = [status |-> "ok", chosen |-> build_today_set(call.user_id, call.bucket, call.n)]
    /\ first_ret' = IF first_ret.status = "none" THEN ret' ELSE first_ret
    /\ UNCHANGED <<dbVars, sessionVars, runVars, call>>

\* insert_attempt for row i of the list the last call returned
DayInsert(i, self_grade) ==
    /\ ret.status = "ok"
    /\ i \in 1..Len(ret.chosen)
    /\ Len(attempts) < MaxAttempts
    /\ attempts' = Append(attempts,
          AttemptRow(call.user_id, ret.chosen[i].qid, call.bucket, ret.chosen[i].level,
                     self_grade))
    /\ UNCHANGED <<sentences, now, sessionVars, runVars, selVars>>

DayNext ==
    \/ DayCall
    \/ \E i \in 1..MaxPool, self_grade \in Grades : DayInsert(i, self_grade)

DaySpec == DayInit /\ [][DayNext]_vars

\* ------------------------------------------- properties of one call
Returned == ret.status = "ok"
Pool == sentences[call.bucket]
\* the attempted-id set of the call: the ids the calling user has in this bucket
AttemptedIds ==
    {a.qid : a \in {attempts[i] : i \in {j \in 1..Len(attempts) :
        attempts[j].user_id = call.user_id /\ attempts[j].bucket = call.bucket}}}
    \ {QidNull}
FreshAt == {i \in 1..Len(Pool) : Pool[i].qid \notin AttemptedIds}
SeenAt == {i \in 1..Len(Pool) : Pool[i].qid \in AttemptedIds}
\* no id (other than a missing one) occurs twice
NoDupIds(x) ==
    \A i, j \in 1..Len(x) : (i # j /\ x[i].qid # QidNull) => x[i].qid # x[j].qid
HasMissingId(x) == \E i \in 1..Len(x) : x[i].qid = QidNull
CountIn(x, r) == Cardinality({i \in 1..Len(x) : x[i] = r})
Min(a, b) == IF a < b THEN a ELSE b

\* C1: the list build_today_set returns contains no item id more than once,
\* whatever the pool, the attempted ids and the count
C1_NoDuplicateIds == Returned => NoDupIds(ret.chosen)

\* C2 as stated: the returned list is no longer than n, for every n; and when
\* the pool has no repeated ids its length is min(n, len(pool))
C2_LengthAnyCount ==
    Returned =>
        /\ Len(ret.chosen) <= call.n
        /\ NoDupIds(Pool) => Len(ret.chosen) = Min(call.n, Len(Pool))

\* C2 amended: for every count n >= 0 the returned list is no longer than n,
\* and when the pool has no repeated ids its length is min(n, len(pool))
C2_LengthNonNegCount ==
    (Returned /\ call.n >= 0) =>
        /\ Len(ret.chosen) <= call.n
        /\ NoDupIds(Pool) => Len(ret.chosen) = Min(call.n, Len(Pool))

C2_Witness ==
    /\ Returned
    /\ NoDupIds(Pool)
    /\ Len(Pool) = 3
    /\ call.n = 2
    /\ Cardinality(FreshAt) = 1
    /\ Len(ret.chosen) = 2

\* C3: when at least n pool rows are fresh (id not attempted), no returned row
\* has an attempted id
C3_FreshOnly ==
    (Returned /\ Cardinality(FreshAt) >= call.n) =>
        \A i \in 1..Len(ret.chosen) : ret.chosen[i].qid \notin AttemptedIds

C3_Witness ==
    /\ Returned
    /\ call.n = 2
    /\ Cardinality(FreshAt) = 2
    /\ Cardinality(SeenAt) = 1
    /\ Len(ret.chosen) = 2

\* C4: when len(fresh) < n <= len(pool), the returned list holds every fresh
\* row, exactly n - len(fresh) attempted rows, and every fresh row before any
\* attempted row
C4_FallbackFill ==
    (Returned /\ Cardinality(FreshAt) < call.n /\ call.n <= Len(Pool)) =>
        /\ \A i \in FreshAt : CountIn(ret.chosen, Pool[i]) = CountIn(Pool, Pool[i])
        /\ Cardinality({i \in 1..Len(ret.chosen) : ret.chosen[i].qid \in AttemptedIds})
              = call.n - Cardinality(FreshAt)
        /\ \A i, j \in 1..Len(ret.chosen) :
              (ret.chosen[i].qid \in AttemptedIds /\ ret.chosen[j].qid \notin AttemptedIds)
                  => j < i

C4_Witness ==
    /\ Returned
    /\ Len(Pool) = 3
    /\ call.n = 2
    /\ Cardinality(FreshAt) = 1
    /\ Len(ret.chosen) = 2
    /\ ret.chosen[1].qid \notin AttemptedIds
    /\ ret.chosen[2].qid \in AttemptedIds

\* C5: a count of zero or less gives an empty list for every pool, an empty
\* pool gives an empty list for every count, and neither raises
C5_EmptyResult ==
    (ret.status # "none" /\ (call.n <= 0 \/ Pool = <<>>)) =>
        (ret.status = "ok" /\ ret.chosen = <<>>)

\* C7: a pool with a repeated id or a missing id ends build_today_set in an
\* error outcome, never in a returned list
C7_FailFast ==
    (ret.status # "none" /\ (~NoDupIds(Pool) \/ HasMissingId(Pool))) =>
        ret.status = "error"

\* The algorithm as specified: shuffle fresh, shuffle seen with the same
\* generator, concatenate fresh then seen, keep the first n
SpecSelect(pool, attempted, seed, n) ==
    LET fresh == Partition(pool, attempted, FALSE)
        seen == Partition(pool, attempted, TRUE)
        f == Shuffle(fresh, RandomInit(seed))
        g == Shuffle(seen, f.s)
        both == f.x \o g.x
    IN  SubSeq(both, 1, Min(n, Len(both)))

\* C10: for a pool without repeated ids and a count n >= 1, build_today_set
\* (which shuffles the attempted rows only when it needs them) returns the list
\* of the specified algorithm, which always shuffles both
C10_SameAsSpecified ==
    (Returned /\ NoDupIds(Pool) /\ call.n >= 1) =>
        ret.chosen = SpecSelect(Pool, AttemptedIds,
                        stable_seed(<<call.user_id, today_kst_str(now), call.bucket>>),
                        call.n)

\* the code skips the shuffle of two attempted rows, the specified algorithm
\* does not
C10_Witness ==
    /\ Returned
    /\ NoDupIds(Pool)
    /\ call.n = 1
    /\ Cardinality(FreshAt) = 1
    /\ Cardinality(SeenAt) = 2
    /\ Len(ret.chosen) = 1

\* C6: with the sentence pool unchanged, every call of build_today_set for one
\* (user_id, KST date, bucket) returns the same ordered list, whatever attempts
\* insert_attempt recorded between the calls
C6_SameSetAllDay ==
    (first_ret.status = "ok" /\ ret.status = "ok") => ret.chosen = first_ret.chosen

\* ---------------------------------------------- properties of the session
\* the tuple (user_id, KST date, bucket) of the running script, in the form the
\* signature gives it; the date is the one read when the script made its signature
TupleOf(u, d, b) == JoinPipe(<<u, d, b>>)
ScriptStarts == pc \in {"idle", "rerun"} /\ pc' \in {"build", "show"}
BuildEnds == pc = "build" /\ pc' # "build"
ShowEnds == pc = "show" /\ pc' # "show"

\* C8, the step: a run whose tuple differs from the stored signature rebuilds
\* the set and resets idx, revealed and last_canvas before it shows an item
\* (the page is untouched until then); a run whose tuple equals it leaves
\* today_set, idx and revealed as they are
C8_Step ==
    /\ ScriptStarts =>
          IF today_signature # TupleOf(user', sig_date', bucket')
          THEN pc' = "build" /\ screen' = screen
          ELSE pc' = "show" /\ UNCHANGED <<today_set, idx, revealed>>
    /\ BuildEnds =>
          /\ today_set' = build_today_set(user, bucket, TodayN)
          /\ idx' = 0
          /\ revealed' = FALSE
          /\ last_canvas' = ""
          /\ screen' = screen
          /\ pc' = "show"

\* C8, the state: while an item is on the page, today_signature is the tuple
\* (user_id, date, bucket) of the run that showed it
C8_Current == screen.view = "item" => today_signature = TupleOf(user, sig_date, bucket)

ItemUp == pc = "show" /\ idx >= 0 /\ idx < Len(today_set)
RowUp == today_set[idx + 1]
Clicked(kinds) ==
    /\ ItemUp
    /\ ev.kind \in kinds
    /\ ev.key = <<today_kst_str(now), bucket, RowUp.qid, idx>>
\* insert_attempt was called in this step: it added a row, or it raised and the
\* error is on the page
InsertCalled == attempts' # attempts \/ screen'.view = "save_error"
InsertAddsRowUp ==
    attempts' # attempts =>
        /\ Len(attempts') = Len(attempts) + 1
        /\ SubSeq(attempts', 1, Len(attempts)) = attempts
        /\ attempts'[Len(attempts')].qid = RowUp.qid
        /\ attempts'[Len(attempts')].bucket = bucket
        /\ attempts'[Len(attempts')].user_id = user
        /\ attempts'[Len(attempts')].self_grade = ev.kind
Advances == idx' = idx + 1 /\ revealed' = FALSE

\* C9 as stated: insert_attempt is called only with revealed True, the attempt
\* carries the id of today_set[idx] and the selected bucket, every grade or
\* next action advances idx by one and resets revealed, and next records nothing
C9_EveryGradeAdvances ==
    [][ShowEnds =>
          /\ InsertCalled => (revealed /\ ItemUp)
          /\ InsertAddsRowUp
          /\ (Clicked({"correct", "wrong"}) /\ revealed) => Advances
          /\ Clicked({"next"}) => (Advances /\ ~InsertCalled)
      ]_vars

\* C9 amended: as stated, but only a grade action whose insert_attempt returns
\* advances idx and resets revealed; one whose insert_attempt raises records
\* nothing and leaves idx and revealed as they were
C9_SavedGradeAdvances ==
    [][ShowEnds =>
          /\ InsertCalled => (revealed /\ ItemUp)
          /\ InsertAddsRowUp
          /\ (Clicked({"correct", "wrong"}) /\ revealed) =>
                IF attempts' # attempts
                THEN Advances
                ELSE idx' = idx /\ revealed' = revealed /\ screen'.view = "save_error"
          /\ Clicked({"next"}) => (Advances /\ ~InsertCalled)
      ]_vars

\* a wrong grade of the second row has been recorded and idx moved past it
C9_Witness ==
    /\ pc = "rerun"
    /\ idx = 2
    /\ revealed = FALSE
    /\ Len(attempts) = 1
    /\ attempts[1].self_grade = "wrong"
    /\ attempts[1].qid = today_set[2].qid
    /\ attempts[1].bucket = bucket

\* C11: whenever a today_set is stored under today_signature (user_id, d, bucket),
\* its seed was derived from the same date d, also when the KST clock passes
\* midnight between main_app making the signature and build_today_set reading
\* today_kst_str() again
C11_SeedDateIsSignatureDate ==
    (pc # "build" /\ today_signature # <<>>) =>
        \E u \in Users, b \in Buckets : today_signature = TupleOf(u, seed_date, b)

====
